---- MODULE Spec2Model ----
(***************************************************************************)
(* Newport motion drivers (lantz): the generic MotionController/MotionAxis *)
(* of motion.py, the ESP301/ESP301Axis of motionesp301.py and the          *)
(* SMC100/MotionAxisSMC100 of motionsmc100.py, driving a device over one   *)
(* serial transport.                                                       *)
(*                                                                         *)
(* Positions are fixed-point integers: 1 unit = 1e-7 mm.  The driver       *)
(* formats a position with '%f' (six decimals), i.e. to a multiple of      *)
(* FmtStep units.  Every transport command, every logging call and every   *)
(* check_position evaluation of the running operation is appended to log,  *)
(* in program order.                                                       *)
(***************************************************************************)
EXTENDS Integers, Sequences, FiniteSets, TLC

VARIABLES
    kind,               \* axis class of the controller's axes
    ctl,                \* controller object: axes, scan_axes, transport, fault
    stage,              \* device: what each address answers to discovery
    probe,              \* arguments and outcome of a string-level call
    backlash,           \* axis.backlash, per axis
    last_set_position,  \* axis.last_set_position, per axis (MotionAxis only):
                        \* the units of its decimal value
    last_set_backlash,  \* the backlash summed into axis.last_set_position, per
                        \* axis (0: stored as it was given or read); the field
                        \* holds the float sum of the position and of this
    dpos,               \* device: physical position, per axis
    dtarget,            \* device: commanded target, per axis
    moving,             \* device: axis in motion (MD? answers '0')
    enabled,            \* device: motor enabled (MO? answers '1')
    pc,                 \* position of the (single) driver thread
    fr,                 \* locals of the running axis-level call
    op,                 \* the top-level operation being run / last run
    prev,               \* summary of the top-level operation before op
    log,                \* events of op, in order
    result,             \* return value of op (option: <<>> is None)
    ncalls              \* number of top-level operations started

device == <<dpos, dtarget, moving, enabled>>
\* what no operation of the driver changes
fixed == <<kind, stage, probe>>
vars == <<kind, ctl, stage, probe, backlash, last_set_position, last_set_backlash,
          dpos, dtarget, moving, enabled, pc, fr, op, prev, log, result, ncalls>>

----------------------------------------------------------------------------
(* Program constants, in units of 1e-7 mm *)

\* self.accuracy = 0.001
Accuracy == 10000
\* numpy.isclose default rtol = 1e-05, as 1/RtolInv
RtolInv == 100000
\* '%f' keeps six decimals: 1e-6 mm = 10 units
FmtStep == 10

\* ESP301 error codes of detect_axis: axis number missing / out of range
AxisMissing == 37
AxisRange == 9
\* MotionAxisSMC100.query: respons[:3], respons[3:] and command[:2]
EchoLen == 3
CmdLen == 2

(* Bounds of the model *)
MaxCalls == 2

Axes == {1, 2}
\* the axes a caller addresses directly in single-axis use
AxisUse == {1}
NumAxes == Cardinality(Axes)
Kinds == {"MotionAxis", "ESP301Axis"}
\* the axis classes that derive from MotionAxis
IsMotionAxis(k) == k \in {"MotionAxis", "MotionAxisSMC100"}
InitPos == [a \in Axes |-> IF a = 1 THEN 100000000 ELSE 0]
Targets == {50000004, 1500000000}
Backlashes == {-5000000, 0, 5000000}
LandErr == {0, 20000}
\* values of define_home: the default 0, and 2.5 mm
HomeVals == {0, 25000000}
\* an optional value: <<>> is None, <<x>> is x
Opt(S) == {<<>>} \cup {<<x>> : x \in S}
VecLens == 0..(NumAxes + 1)
\* discovery never probes beyond the first address past the last axis; the
\* scan loop is cut off one address later
MaxAddr == NumAxes + 2
\* codes 'TE?' reports after a failed identity query
ErrCodes == {AxisMissing, AxisRange, 0, 7}
\* string-level calls: axis numbers, commands, payloads, error codes
Nums == {1, 2, 10, 31}
Commands == {<<"T", "P", "?">>, <<"T", "E", "?">>, <<"I", "D", "?">>}
Payloads == {<<>>, <<"@">>, <<"5", ".", "0">>}
Rets == {<<c>> : c \in {"@", "A", "B", "C", "D", "E", "F", "G", "H", "I", "J",
                        "K", "L", "M", "N", "Z", "0"}}
        \cup {<<>>, <<"E", "@">>}
\* backlash values tried in controller use: none, or the sign that makes the
\* first move of the axis (from InitPos towards VecTargets) take the extra move
CtlBacklashes == [a \in Axes |-> IF a = 1 THEN {-5000000, 0} ELSE {0, 5000000}]
\* entries of the vectors of a controller position write
VecTargets == {50000004}
Vectors == UNION {[1..n -> Opt(VecTargets)] : n \in VecLens}

----------------------------------------------------------------------------
(* Binary floating point.  The driver's positions are float64 values; the
   model writes a position as the integer number of units of its decimal
   value.  Where the outcome of an operation of the code depends on the
   binary representation of its operands (a '%f' tie, a tolerance met with
   equality) it is computed below on the float64 values themselves.  A
   natural number of any size is the sequence of its digits to the base
   Radix, lowest first, the highest one not 0. *)

Width == 7
Radix == 2 ^ Width

RECURSIVE Big(_)
Big(n) == IF n = 0 THEN <<>> ELSE <<n % Radix>> \o Big(n \div Radix)

RECURSIVE Val(_)
Val(x) == IF x = <<>> THEN 0 ELSE x[1] + Radix * Val(Tail(x))

\* digit i of x (i = 1 the lowest), 0 beyond its ends
Digit(x, i) == IF i \in 1..Len(x) THEN x[i] ELSE 0
\* binary digit i of x (i = 0 the lowest)
Bit(x, i) == (Digit(x, (i \div Width) + 1) \div (2 ^ (i % Width))) % 2

\* x without its leading zero digits
Trim(x) ==
    SubSeq(x, 1, CHOOSE n \in 0..Len(x) :
                     /\ n = 0 \/ x[n] # 0
                     /\ \A i \in (n + 1)..Len(x) : x[i] = 0)

\* number of binary digits of x
BitLen(x) ==
    IF x = <<>> THEN 0
    ELSE Width * (Len(x) - 1)
         + (CHOOSE k \in 1..Width : 2 ^ (k - 1) <= x[Len(x)] /\ x[Len(x)] < 2 ^ k)

MaxLen(x, y) == IF Len(x) < Len(y) THEN Len(y) ELSE Len(x)

\* the carry into digit i of x + y
Carry(x, y, i) ==
    IF \E j \in 1..(i - 1) :
          /\ Digit(x, j) + Digit(y, j) >= Radix
          /\ \A k \in (j + 1)..(i - 1) : Digit(x, k) + Digit(y, k) = Radix - 1
    THEN 1 ELSE 0

Add(x, y) ==
    Trim([i \in 1..(MaxLen(x, y) + 1) |->
             (Digit(x, i) + Digit(y, i) + Carry(x, y, i)) % Radix])

\* the borrow from digit i of x - y
Borrow(x, y, i) ==
    IF \E j \in 1..(i - 1) :
          /\ Digit(x, j) < Digit(y, j)
          /\ \A k \in (j + 1)..(i - 1) : Digit(x, k) = Digit(y, k)
    THEN 1 ELSE 0

\* x - y, for x >= y
Sub(x, y) ==
    Trim([i \in 1..Len(x) |-> (x[i] - Digit(y, i) - Borrow(x, y, i)) % Radix])

\* x <= y
LessEq(x, y) ==
    \/ Len(x) < Len(y)
    \/ /\ Len(x) = Len(y)
       /\ \A i \in 1..Len(x) :
             (x[i] > y[i]) => \E j \in (i + 1)..Len(x) : x[j] < y[j]

\* x * 2^k
Shl(x, k) ==
    LET s == k % Width
    IN  Trim([i \in 1..(k \div Width) |-> 0]
             \o [i \in 1..(Len(x) + 1) |->
                    ((Digit(x, i) * (2 ^ s)) % Radix)
                    + (Digit(x, i - 1) \div (2 ^ (Width - s)))])

\* x \div 2^k
Shr(x, k) ==
    LET n == k \div Width
        s == k % Width
    IN  Trim([i \in 1..(Len(x) - n) |->
                 (Digit(x, i + n) \div (2 ^ s))
                 + ((Digit(x, i + n + 1) % (2 ^ s)) * (2 ^ (Width - s)))])

\* x * d, for a digit d
MulDigit(x, d) ==
    Add([i \in 1..Len(x) |-> (x[i] * d) % Radix],
        <<0>> \o [i \in 1..Len(x) |-> (x[i] * d) \div Radix])

RECURSIVE Mul(_, _)
Mul(x, y) ==
    IF y = <<>> \/ x = <<>> THEN <<>>
    ELSE Add(MulDigit(x, y[1]), Trim(<<0>> \o Mul(x, Tail(y))))

\* x / 2^k has a binary digit 1 after its first binary digit after the point
Sticky(x, k) == \E i \in 0..(k - 2) : Bit(x, i) = 1

\* the natural number nearest to x / 2^k (k > 0), ties to even
ShrRound(x, k) ==
    IF Bit(x, k - 1) = 1 /\ (Bit(x, k) = 1 \/ Sticky(x, k))
    THEN Add(Shr(x, k), <<1>>) ELSE Shr(x, k)

\* float64: 53 binary digits
Mantissa == 53
\* digits (to the base Radix) of a quotient after the point, before rounding
FracDigits == 12

\* a float: sign s, and the magnitude m * 2^e
Float(s, m, e) == [s |-> s, m |-> m, e |-> e]

\* s * m * 2^e rounded to a float, ties to even
Round(s, m, e) ==
    IF BitLen(m) <= Mantissa THEN Float(s, m, e)
    ELSE Float(s, ShrRound(m, BitLen(m) - Mantissa), e + BitLen(m) - Mantissa)

\* long division: the quotient acc so far and the remainder r give k more
\* digits, then a last digit that tells whether a remainder is left
RECURSIVE Quotient(_, _, _, _)
Quotient(r, den, k, acc) ==
    IF k = 0 THEN <<IF r = 0 THEN 0 ELSE 1>> \o acc
    ELSE Quotient((r * Radix) % den, den, k - 1,
                  <<(r * Radix) \div den>> \o acc)

\* the float nearest to num / den, for 0 < den <= 2^24
Ratio(num, den) ==
    Round(IF num < 0 THEN -1 ELSE 1,
          Trim(Quotient((IF num < 0 THEN -num ELSE num) % den, den, FracDigits,
                        Big((IF num < 0 THEN -num ELSE num) \div den))),
          -(Width * (FracDigits + 1)))

\* x + y, rounded
FSum(x, y) ==
    LET e == IF x.e < y.e THEN x.e ELSE y.e
        mx == Shl(x.m, x.e - e)
        my == Shl(y.m, y.e - e)
    IN  IF x.s = y.s THEN Round(x.s, Add(mx, my), e)
        ELSE IF LessEq(my, mx) THEN Round(x.s, Sub(mx, my), e)
        ELSE Round(y.s, Sub(my, mx), e)

FNeg(x) == Float(-x.s, x.m, x.e)
FAbs(x) == Float(1, x.m, x.e)

\* x * y, rounded
FMul(x, y) == Round(x.s * y.s, Mul(x.m, y.m), x.e + y.e)

\* x <= y, for x >= 0 and y >= 0
FLessEq(x, y) ==
    LET e == IF x.e < y.e THEN x.e ELSE y.e
    IN  LessEq(Shl(x.m, x.e - e), Shl(y.m, y.e - e))

\* 1 mm in units
Unit == 10000000
\* the float of a position of n units: float('<the decimal value of n>')
F(n) == Ratio(n, Unit)

\* '%f' % x: the multiple of FmtStep units nearest to the float x, ties (of
\* the binary value) to even
FmtFloat(x) ==
    LET p == Mul(x.m, Big(Unit \div FmtStep))
    IN  x.s * FmtStep * Val(IF x.e < 0 THEN ShrRound(p, -x.e) ELSE Shl(p, x.e))

----------------------------------------------------------------------------
(* Pure helpers *)

Abs(x) == IF x < 0 THEN -x ELSE x
Min(S) == CHOOSE x \in S : \A y \in S : x <= y
B2I(b) == IF b THEN 1 ELSE 0

\* '%f' % pos for a position of x units: the multiple of FmtStep nearest to
\* the float of x.  The float lies within 2^-46 mm of the decimal value, so
\* off a decimal tie the decimal value decides; on one, the float does.
Fmt(x) ==
    LET r == x % FmtStep
        lo == x - r
    IN  IF 2 * r < FmtStep THEN lo
        ELSE IF 2 * r > FmtStep THEN lo + FmtStep
        ELSE FmtFloat(F(x))

\* '%f' % (pos + backlash): the sum is the float sum of the two floats
FmtSum(x, b) ==
    IF 2 * ((x + b) % FmtStep) # FmtStep THEN Fmt(x + b)
    ELSE FmtFloat(FSum(F(x), F(b)))

\* numpy.isclose(x, y, atol=atol) on floats:
\* abs(x - y) <= atol + rtol * abs(y), every operation rounded
isclose_binary(x, y, atol) ==
    FLessEq(FAbs(FSum(x, FNeg(y))),
            FSum(atol, FMul(Ratio(1, RtolInv), FAbs(y))))

\* numpy.isclose(a, b, atol=atol) on the floats of a and b
isclose_float(a, b, atol) == isclose_binary(F(a), F(b), F(atol))

\* numpy.isclose(a, b, atol=atol) for positions of a and b units.  The
\* roundings of the float computation stay below 1e-13 mm in all, and a
\* decimal difference |a - b| that is not the decimal tolerance
\* atol + |b| / RtolInv is at least 1e-12 mm off it: the decimal values
\* decide, except when the two are equal.
isclose(a, b, atol) ==
    LET d == Abs(a - b)
        tol == atol + (Abs(b) \div RtolInv)
    IN  IF d = tol /\ Abs(b) % RtolInv = 0 THEN isclose_float(a, b, atol)
        ELSE d <= tol

\* numpy.isclose(a, x + b, atol=atol) for positions of a, x and b units:
\* x + b is the float sum of the two floats, within 1e-14 mm of the decimal
\* sum, and the decimal values decide off the boundary as in isclose
isclose_sum(a, x, b, atol) ==
    LET d == Abs(a - (x + b))
        tol == atol + (Abs(x + b) \div RtolInv)
    IN  IF d = tol /\ Abs(x + b) % RtolInv = 0
        THEN isclose_binary(F(a), FSum(F(x), F(b)), F(atol))
        ELSE d <= tol

\* Feat(values={True: '1', False: '0'}): decode of a '1'/'0' answer
Decode(r) == r = 1

\* variant: the direction test of the extra move reversed
NeedsBacklash_reversed(b, position, pos) ==
    (b < 0 /\ position < pos) \/ (b > 0 /\ position > pos)

\* the condition of the extra (backlash) move
NeedsBacklash(b, position, pos) ==
    (b < 0 /\ position > pos) \/ (b > 0 /\ position < pos)

\* self.wait_until_done = True, set by the axis constructor
wait_until_done == TRUE

\* the wait flag _set_position works with, from its wait argument
ResolveWait(k, w) ==
    IF w = <<>>
    THEN (IF k = "ESP301Axis" THEN wait_until_done ELSE FALSE)
    ELSE w[1]

\* zip(pos, self.axes) stops at the shorter of the two
ZipLen(vec) == IF Len(vec) < Len(ctl.axes) THEN Len(vec) ELSE Len(ctl.axes)

\* first index >= n of zip(pos, self.axes) whose p is not None; 0 if none
NextPresent(vec, n) ==
    LET S == {j \in n..ZipLen(vec) : vec[j] # <<>>}
    IN  IF S = {} THEN 0 ELSE Min(S)

----------------------------------------------------------------------------
(* Strings: a string is the sequence of its characters *)

DigitChars == <<"0", "1", "2", "3", "4", "5", "6", "7", "8", "9">>
Base == Len(DigitChars)

\* '{:d}'.format(n), n >= 0
RECURSIVE Digits(_)
Digits(n) ==
    IF n < Base THEN <<DigitChars[n + 1]>>
    ELSE Append(Digits(n \div Base), DigitChars[(n % Base) + 1])

\* s[:n]
Take(s, n) == SubSeq(s, 1, IF n < Len(s) THEN n ELSE Len(s))
\* s[n:]
Drop(s, n) == IF n < Len(s) THEN SubSeq(s, n + 1, Len(s)) ELSE <<>>

\* MotionAxisSMC100.query on the response to '<num><command>': whether the
\* mismatch error is logged, and the value returned
query(num, command, respons) ==
    [logged |-> Take(respons, EchoLen) # Digits(num) \o Take(command, CmdLen),
     ret |-> Drop(respons, EchoLen)]

\* the SMC100 error table: code -> description
ERRORS ==
    [c \in {"@", "A", "B", "C", "D", "E", "I", "J", "K", "L", "M"} |->
        CASE c = "@" -> ""
          [] c = "A" -> "Unknown message code or floating point controller address."
          [] c = "B" -> "Controller address not correct."
          [] c = "C" -> "Parameter missing or out of range."
          [] c = "D" -> "Execution not allowed."
          [] c = "E" -> "home sequence already started."
          [] c = "I" -> "Execution not allowed in CONFIGURATION state."
          [] c = "J" -> "Execution not allowed in DISABLE state."
          [] c = "K" -> "Execution not allowed in READY state."
          [] c = "L" -> "Execution not allowed in HOMING state."
          [] c = "M" -> "Execution not allowed in MOVING state."]

\* a message as the sequence of its non-empty pieces: '' is <<>>
Text(m) == IF m = "" THEN <<>> ELSE <<m>>

\* variant: an unmapped code decodes to the empty message
get_errors_mapped(ret) ==
    IF Len(ret) = 1 /\ ret[1] \in DOMAIN ERRORS THEN Text(ERRORS[ret[1]]) ELSE <<>>

\* get_errors: ERRORS.get(ret, 'Error {}. Lookup in manual: ...'.format(ret))
get_errors(ret) ==
    IF Len(ret) = 1 /\ ret[1] \in DOMAIN ERRORS
    THEN Text(ERRORS[ret[1]])
    ELSE <<"Error ">> \o ret \o <<". Lookup in manual: https://www.newport.com/">>

\* 'if err: self.log_error(...)'
ErrorLogged(err) == err # <<>>

\* the characters '@', 'A' .. 'Z', and the number of a character in the log
Letters == <<"@", "A", "B", "C", "D", "E", "F", "G", "H", "I", "J", "K", "L", "M",
             "N", "O", "P", "Q", "R", "S", "T", "U", "V", "W", "X", "Y", "Z">>
Ord(c) == (CHOOSE n \in 1..Len(Letters) : Letters[n] = c) + 63

----------------------------------------------------------------------------
(* Events *)

Ev(a, c, x, r) == [ax |-> a, cmd |-> c, arg |-> x, reply |-> r]

IsPA(e) == e.cmd = "PA"
PAs(l) == SelectSeq(l, IsPA)
NPA(l) == Len(PAs(l))

NoFrame == [axis |-> 0, pos |-> 0, wait |-> FALSE, force |-> FALSE]
Frame(a, p, w, f) == [axis |-> a, pos |-> p, wait |-> w, force |-> f]
NoOp == [name |-> "none", ax |-> 0, pos |-> 0, wait |-> FALSE, force |-> FALSE,
         vec |-> <<>>, wud |-> FALSE, lsp0 |-> [a \in Axes |-> 0]]
\* the identity queries of a log
IsID(e) == e.cmd = "ID?"
IDs(l) == SelectSeq(l, IsID)
\* what is kept of a finished operation: its call, the number of its PA
\* commands, its identity queries, and the axes and the fault it left
NoSummary == [name |-> "none", ax |-> 0, pos |-> 0, wait |-> FALSE,
              force |-> FALSE, npa |-> 0, ids |-> <<>>, axes |-> <<>>,
              raised |-> ""]
Summary == [name |-> op.name, ax |-> op.ax, pos |-> op.pos, wait |-> op.wait,
            force |-> op.force, npa |-> NPA(log), ids |-> IDs(log),
            axes |-> ctl.axes, raised |-> ctl.raised]

\* an axis object: its address and its reference to the controller
AxisObj(n) == [num |-> n, parent |-> TRUE]
\* an address with a stage: the identity query is answered
StageOk == [id |-> <<"stage">>, te |-> 0]
\* no string-level call
NoProbe == [fn |-> "none", num |-> 0, command |-> <<>>, respons |-> <<>>,
            done |-> FALSE, logged |-> FALSE, ret |-> <<>>]

\* first label of an axis-level _set_position
EntryPc == IF IsMotionAxis(kind) THEN "is_on" ELSE "position"

----------------------------------------------------------------------------
\* an initialized controller whose every address holds a stage, at rest
Init ==
    /\ kind \in Kinds
    /\ ctl = [axes |-> [a \in 1..NumAxes |-> <<AxisObj(a)>>], scan_axes |-> FALSE,
              open |-> TRUE, raised |-> ""]
    /\ stage = [a \in Axes |-> StageOk]
    /\ probe = NoProbe
    /\ backlash = [a \in Axes |-> 0]
    /\ dpos = InitPos
    /\ dtarget = InitPos
    /\ moving = [a \in Axes |-> FALSE]
    /\ enabled = [a \in Axes |-> TRUE]
    /\ last_set_position = [a \in Axes |-> IF IsMotionAxis(kind) THEN InitPos[a] ELSE 0]
    /\ last_set_backlash = [a \in Axes |-> 0]
    /\ pc = "idle"
    /\ fr = NoFrame
    /\ op = NoOp
    /\ prev = NoSummary
    /\ log = <<>>
    /\ result = <<>>
    /\ ncalls = 0

----------------------------------------------------------------------------
(* Device: reaction to the commands of the wire protocol *)

\* '<n>PA<value>': an enabled axis starts moving to value; a disabled one ignores it
DevPA(a, v) ==
    /\ dtarget' = IF enabled[a] THEN [dtarget EXCEPT ![a] = v] ELSE dtarget
    /\ moving' = IF enabled[a] THEN [moving EXCEPT ![a] = TRUE] ELSE moving
    /\ UNCHANGED <<dpos, enabled>>

\* '<n>ST': a moving axis stops, short of its target
DevST(a) ==
    /\ moving' = [moving EXCEPT ![a] = FALSE]
    /\ UNCHANGED <<dpos, dtarget, enabled>>

\* the position of the home switch
HomePos == 0

\* '<n>OR': an enabled axis starts its home search; a disabled one ignores it
DevOR(a) == DevPA(a, HomePos)

\* '<n>DH<value>': the position the axis is at is called value from now on,
\* and its target moves with it
DevDH(a, v) ==
    /\ dpos' = [dpos EXCEPT ![a] = v]
    /\ dtarget' = [dtarget EXCEPT ![a] = @ + v - dpos[a]]
    /\ UNCHANGED <<moving, enabled>>

\* the axis comes to rest, at its target or off it by err
DeviceArrive(a, err) ==
    /\ moving[a]
    /\ dpos' = [dpos EXCEPT ![a] = dtarget[a] + err]
    /\ moving' = [moving EXCEPT ![a] = FALSE]
    /\ UNCHANGED <<fixed, ctl, backlash, last_set_position, last_set_backlash, dtarget, enabled,
                   pc, fr, op, prev, log, result, ncalls>>

----------------------------------------------------------------------------
(* Axis: queries *)

\* is_on: '<n>MO?'
is_on_ev(a) == Ev(a, "MO?", 0, B2I(enabled[a]))
\* the exchange and the answer of is_on; MotionAxisSMC100.is_on returns '1'
\* without a query
is_on_evs(a) == IF kind = "MotionAxisSMC100" THEN <<>> ELSE <<is_on_ev(a)>>
\* variant: every axis class asks the device
is_on_reply_device(a) == is_on_ev(a).reply
is_on_reply(a) == IF kind = "MotionAxisSMC100" THEN 1 ELSE is_on_ev(a).reply
\* position: '<n>TP?'
position_ev(a) == Ev(a, "TP?", 0, dpos[a])
\* motion_done: '<n>MD?'
motion_done_ev(a) == Ev(a, "MD?", 0, B2I(~moving[a]))

\* variant: the enabled test never aborts
NotOn_never(reply) == FALSE

\* _set_position: 'if not self.is_on' takes the abort branch
NotOn(reply) == ~Decode(reply)

\* variant: force does not keep a close move from being skipped
SkipMove_forced(force, pos, current_value) == isclose(pos, current_value, Accuracy)

\* variant: the move is never skipped
SkipMove_never(force, pos, current_value) == FALSE

\* _set_position: 'if not force and np.isclose(pos, current_value, atol=self.accuracy)'
SkipMove(force, pos, current_value) ==
    ~force /\ isclose(pos, current_value, Accuracy)

\* check_position: 'np.isclose(self.position, pos, atol=self.accuracy)'
check_position_ok(position, pos) == isclose(position, pos, Accuracy)

\* check_position(pos) up to its test, whose outcome is ok: the TP? of
\* self.position, and the answer True when the position read is close to pos
check_position_test(a, pos, ok) ==
    IF ok THEN <<position_ev(a), Ev(a, "check_position", pos, 1)>>
    ELSE <<position_ev(a)>>

check_position(a, pos) ==
    check_position_test(a, pos, check_position_ok(dpos[a], pos))

\* MotionAxisSMC100.motion_done: the test of
\* check_position(self.last_set_position), on the float the field holds
last_set_position_ok(a) ==
    isclose_sum(dpos[a], last_set_position[a] - last_set_backlash[a],
                last_set_backlash[a], Accuracy)

\* check_position(pos) after a failed test: self.position is read again for
\* the message, the error is logged, and the answer is False
check_position_message(a, pos) ==
    <<position_ev(a),
      Ev(a, "log_error: Position accuracy is not reached", pos, 0),
      Ev(a, "check_position", pos, 0)>>

\* the labels of a running _wait_until_done
WaitPcs == {"wait_extra", "wait_final", "ctl_wait"}

\* the label at which a check_position whose test failed goes on, by the
\* label of its call
FailedPc ==
    [l \in WaitPcs \cup {"check", "ctl_check"} |->
        CASE l = "wait_extra" -> "wait_extra_failed"
          [] l = "wait_final" -> "wait_final_failed"
          [] l = "ctl_wait" -> "ctl_wait_failed"
          [] l = "check" -> "check_failed"
          [] l = "ctl_check" -> "ctl_check_failed"]
CallPc(l) == CHOOSE c \in DOMAIN FailedPc : FailedPc[c] = l

\* the answer motion_done gives on the device as it is: of '<n>MD?', or for
\* MotionAxisSMC100 of check_position(self.last_set_position)
motion_done_reply(a) ==
    IF kind = "MotionAxisSMC100"
    THEN B2I(last_set_position_ok(a))
    ELSE motion_done_ev(a).reply

\* the first exchange of motion_done, with the answer when that exchange
\* gives it
motion_done_evs(a) ==
    IF kind = "MotionAxisSMC100"
    THEN check_position_test(a, last_set_position[a], last_set_position_ok(a))
    ELSE <<motion_done_ev(a)>>

\* motion_done is a check_position whose test fails: the answer comes after
\* its message
motion_done_fails(a) ==
    kind = "MotionAxisSMC100" /\ ~Decode(motion_done_reply(a))

\* device: the error code 'TE?' reports after command c; a disabled SMC100
\* axis refuses a move
DevTE(a, c) == IF c = "PA" /\ ~enabled[a] THEN "J" ELSE "@"

\* get_errors() after command c: the 'TE?' query through the echo check, and
\* the log of a non-empty message
get_errors_evs(a, c) ==
    LET q == query(a, <<"T", "E", "?">>, Digits(a) \o <<"T", "E", DevTE(a, c)>>)
    IN  <<Ev(a, "TE?", 0, Ord(DevTE(a, c)))>>
        \o (IF q.logged THEN <<Ev(a, "log_error: Expected to return command", 0, 0)>>
            ELSE <<>>)
        \o (IF ErrorLogged(get_errors(q.ret))
            THEN <<Ev(a, "log_error: Axis error", Ord(DevTE(a, c)), 0)>>
            ELSE <<>>)

\* what get_errors() returns after command c
get_errors_ret(a, c) ==
    get_errors(query(a, <<"T", "E", "?">>, Digits(a) \o <<"T", "E", DevTE(a, c)>>).ret)

\* variant: a write is not followed by get_errors
write_evs_plain(a, c, x) == <<Ev(a, c, x, 0)>>

\* write of command c with argument x; MotionAxisSMC100.write adds get_errors()
write_evs(a, c, x) ==
    <<Ev(a, c, x, 0)>>
    \o (IF kind = "MotionAxisSMC100" THEN get_errors_evs(a, c) ELSE <<>>)

\* variant: the loop gives up after one poll
LoopExits_once(reply) == TRUE

\* _wait_until_done: 'while not self.motion_done' ends on a true answer
LoopExits(reply) == Decode(reply)

\* l ends with the events es
EndsWith(l, es) ==
    Len(l) >= Len(es) /\ SubSeq(l, Len(l) - Len(es) + 1, Len(l)) = es

\* one poll of the _wait_until_done loop that motion_done answers in one
\* exchange; a poll that repeats the last one (same axis, same answers, not
\* done) is recorded once
Polled(l, a) ==
    IF ~Decode(motion_done_reply(a)) /\ EndsWith(l, motion_done_evs(a))
    THEN l ELSE l \o motion_done_evs(a)

\* the end of a poll whose check_position failed: l ends with the TP? of the
\* test, es is the message part; a poll that repeats the last one is
\* recorded once
PolledFailed(l, es) ==
    IF EndsWith(SubSeq(l, 1, Len(l) - 1), <<l[Len(l)]>> \o es)
    THEN SubSeq(l, 1, Len(l) - 1) ELSE l \o es

\* label after the extra move: MotionAxis always waits, ESP301Axis only 'if wait'
AfterExtraPc(k, w) ==
    IF IsMotionAxis(k) THEN "wait_extra"
    ELSE IF w THEN "wait_extra" ELSE "final"

\* variant: the final move is waited for whatever wait is
AfterFinalPc_always(k, w) == "wait_final"

\* label after the final move and 'if wait:'; "return" leaves _set_position
AfterFinalPc(k, w) == IF w THEN "wait_final" ELSE "return"

\* label after the final _wait_until_done: MotionAxis runs check_position
AfterWaitPc(k) == IF IsMotionAxis(k) THEN "check" ELSE "return"

\* variant: __set_position leaves last_set_position alone
Recorded_stale(k, lsp, a, pos) == lsp

\* __set_position records last_set_position (MotionAxis); ESP301Axis has no such field
Recorded(k, lsp, a, pos) ==
    IF IsMotionAxis(k) THEN [lsp EXCEPT ![a] = pos] ELSE lsp

----------------------------------------------------------------------------
(* Controller: continuation of the position write *)

\* after the dispatch loop: 'return pos' without waiting, or the wait loop,
\* or (nothing to wait for) the final read
AfterDispatch(vec, wud) ==
    IF IsMotionAxis(kind) /\ ~wud
    THEN pc' = "idle" /\ fr' = NoFrame /\ result' = vec
    ELSE LET k == NextPresent(vec, 1)
         IN  IF k # 0
             THEN pc' = "ctl_wait" /\ fr' = Frame(k, vec[k][1], FALSE, FALSE)
                  /\ result' = <<>>
             ELSE pc' = "ctl_read" /\ fr' = NoFrame /\ result' = <<>>

\* dispatch loop from index n on: the next present entry starts
\* axis._set_position(p, wait=False), which fails on an empty slot of axes;
\* the axis of index j has address j
Dispatch(vec, wud, n) ==
    LET j == NextPresent(vec, n)
    IN  IF j # 0
        THEN pc' = (IF ctl.axes[j] = <<>> THEN "raise" ELSE EntryPc)
             /\ fr' = Frame(j, vec[j][1], FALSE, FALSE) /\ result' = <<>>
        ELSE AfterDispatch(vec, wud)

\* variant: the wait loop takes every axis, present entry or not
WaitNext_all(vec, n) ==
    IF n <= NumAxes
    THEN pc' = "ctl_wait" /\ fr' = Frame(n, 0, FALSE, FALSE)
    ELSE pc' = "ctl_read" /\ fr' = NoFrame

\* variant: the wait loop stops after its first axis
WaitNext_none(vec, n) == pc' = "ctl_read" /\ fr' = NoFrame

\* wait loop from index n on, then the final read
WaitNext(vec, n) ==
    LET k == NextPresent(vec, n)
    IN  IF k # 0
        THEN pc' = "ctl_wait" /\ fr' = Frame(k, vec[k][1], FALSE, FALSE)
        ELSE pc' = "ctl_read" /\ fr' = NoFrame

\* return of an axis-level _set_position to its caller
Return ==
    IF op.name = "_set_position"
    THEN pc' = "idle" /\ fr' = NoFrame /\ result' = <<>>
    ELSE Dispatch(op.vec, op.wud, fr.axis + 1)

\* continue at label l (a label of _set_position, or "return")
Goto(l) ==
    IF l = "return" THEN Return
    ELSE pc' = l /\ UNCHANGED <<fr, result>>

\* a top-level operation starts
BeginOp(o) ==
    /\ pc = "idle"
    /\ ncalls < MaxCalls
    /\ ncalls' = ncalls + 1
    /\ op' = o
    /\ prev' = Summary
    /\ UNCHANGED <<fixed, backlash>>

\* a top-level operation of an initialized controller starts
Begin(o) ==
    /\ ctl.open
    /\ BeginOp(o)
    /\ ctl' = [ctl EXCEPT !.raised = ""]

----------------------------------------------------------------------------
(* Axis: _set_position(pos, wait, force), one action per transport exchange *)

\* MotionAxis: 'if not self.is_on: log_error; return'
set_position_is_on ==
    /\ pc = "is_on"
    /\ LET a == fr.axis
           q == is_on_evs(a)
       IN  IF NotOn(is_on_reply(a))
           THEN log' = log \o q \o <<Ev(a, "log_error: Axis not enabled", 0, 0)>> /\ Return
           ELSE log' = log \o q /\ Goto("refresh")
    /\ UNCHANGED <<fixed, ctl, backlash, last_set_position, last_set_backlash, device, op, prev, ncalls>>

\* MotionAxis: current_value = self.refresh('position'); skip a move that is
\* not needed; 'if self.backlash:' decides whether position is read again
set_position_refresh ==
    /\ pc = "refresh"
    /\ LET a == fr.axis
           q == position_ev(a)
       IN  IF SkipMove(fr.force, fr.pos, q.reply)
           THEN log' = log \o <<q, Ev(a, "log_info: No need to set", fr.pos, 0)>> /\ Return
           ELSE log' = Append(log, q)
                /\ Goto(IF backlash[a] # 0 THEN "position" ELSE "final")
    /\ UNCHANGED <<fixed, ctl, backlash, last_set_position, last_set_backlash, device, op, prev, ncalls>>

\* position = self.position, then the test for the extra move
\* (MotionAxis logs 'Using backlash' when it takes it)
set_position_position ==
    /\ pc = "position"
    /\ LET a == fr.axis
           q == position_ev(a)
       IN  IF NeedsBacklash(backlash[a], q.reply, fr.pos)
           THEN /\ log' = IF IsMotionAxis(kind)
                          THEN log \o <<q, Ev(a, "log_info: Using backlash", 0, 0)>>
                          ELSE Append(log, q)
                /\ Goto("extra")
           ELSE log' = Append(log, q) /\ Goto("final")
    /\ UNCHANGED <<fixed, ctl, backlash, last_set_position, last_set_backlash, device, op, prev, ncalls>>

\* self.__set_position(pos + backlash), then the wait for it (if any);
\* last_set_position is the float sum pos + backlash
set_position_extra ==
    /\ pc = "extra"
    /\ LET a == fr.axis
           p == fr.pos + backlash[a]
       IN  /\ log' = log \o write_evs(a, "PA", FmtSum(fr.pos, backlash[a]))
           /\ DevPA(a, FmtSum(fr.pos, backlash[a]))
           /\ last_set_position' = Recorded(kind, last_set_position, a, p)
           /\ last_set_backlash' = Recorded(kind, last_set_backlash, a, backlash[a])
    /\ Goto(AfterExtraPc(kind, fr.wait))
    /\ UNCHANGED <<fixed, ctl, backlash, op, prev, ncalls>>

\* _wait_until_done() after the extra move
set_position_wait_extra ==
    /\ pc = "wait_extra"
    /\ IF motion_done_fails(fr.axis)
       THEN /\ log' = log \o motion_done_evs(fr.axis)
            /\ pc' = FailedPc[pc]
            /\ UNCHANGED <<fr, result>>
       ELSE /\ log' = Polled(log, fr.axis)
            /\ IF LoopExits(motion_done_reply(fr.axis)) THEN Goto("final")
               ELSE UNCHANGED <<pc, fr, result>>
    /\ UNCHANGED <<fixed, ctl, backlash, last_set_position, last_set_backlash, device, op, prev, ncalls>>

\* self.__set_position(pos), then 'if wait:'
set_position_final ==
    /\ pc = "final"
    /\ LET a == fr.axis
       IN  /\ log' = log \o write_evs(a, "PA", Fmt(fr.pos))
           /\ DevPA(a, Fmt(fr.pos))
           /\ last_set_position' = Recorded(kind, last_set_position, a, fr.pos)
           /\ last_set_backlash' = Recorded(kind, last_set_backlash, a, 0)
    /\ Goto(AfterFinalPc(kind, fr.wait))
    /\ UNCHANGED <<fixed, ctl, backlash, op, prev, ncalls>>

\* _wait_until_done() after the final move
set_position_wait_final ==
    /\ pc = "wait_final"
    /\ IF motion_done_fails(fr.axis)
       THEN /\ log' = log \o motion_done_evs(fr.axis)
            /\ pc' = FailedPc[pc]
            /\ UNCHANGED <<fr, result>>
       ELSE /\ log' = Polled(log, fr.axis)
            /\ IF LoopExits(motion_done_reply(fr.axis)) THEN Goto(AfterWaitPc(kind))
               ELSE UNCHANGED <<pc, fr, result>>
    /\ UNCHANGED <<fixed, ctl, backlash, last_set_position, last_set_backlash, device, op, prev, ncalls>>

\* MotionAxis: self.check_position(pos), then _set_position returns
set_position_check ==
    /\ pc = "check"
    /\ log' = log \o check_position(fr.axis, fr.pos)
    /\ IF check_position_ok(dpos[fr.axis], fr.pos) THEN Return
       ELSE pc' = FailedPc[pc] /\ UNCHANGED <<fr, result>>
    /\ UNCHANGED <<fixed, ctl, backlash, last_set_position, last_set_backlash, device, op, prev, ncalls>>

\* check_position after its test failed: the message with the position read
\* again, 'return False', and the caller goes on: _set_position returns, the
\* controller takes its next axis, _wait_until_done polls again
check_position_failed ==
    /\ pc \in {FailedPc[l] : l \in DOMAIN FailedPc}
    /\ LET a == fr.axis
           site == CallPc(pc)
           es == check_position_message(a,
                     IF site \in WaitPcs THEN last_set_position[a] ELSE fr.pos)
       IN  /\ log' = IF site \in WaitPcs THEN PolledFailed(log, es) ELSE log \o es
           /\ CASE site = "check" -> Return
                [] site = "ctl_check" -> WaitNext(op.vec, a + 1) /\ result' = result
                [] OTHER -> pc' = site /\ UNCHANGED <<fr, result>>
    /\ UNCHANGED <<fixed, ctl, backlash, last_set_position, last_set_backlash, device, op, prev, ncalls>>

----------------------------------------------------------------------------
(* Controller: position write, after the dispatch loop *)

\* axis._wait_until_done() of the wait loop; MotionController then checks
position_wait ==
    /\ pc = "ctl_wait"
    /\ IF motion_done_fails(fr.axis)
       THEN /\ log' = log \o motion_done_evs(fr.axis)
            /\ pc' = FailedPc[pc]
            /\ fr' = fr
       ELSE /\ log' = Polled(log, fr.axis)
            /\ IF ~LoopExits(motion_done_reply(fr.axis)) THEN UNCHANGED <<pc, fr>>
               ELSE IF IsMotionAxis(kind) THEN pc' = "ctl_check" /\ fr' = fr
               ELSE WaitNext(op.vec, fr.axis + 1)
    /\ UNCHANGED <<fixed, ctl, backlash, last_set_position, last_set_backlash, device, op, prev, result, ncalls>>

\* MotionController: axis.check_position(p) of the wait loop
position_check ==
    /\ pc = "ctl_check"
    /\ log' = log \o check_position(fr.axis, fr.pos)
    /\ IF check_position_ok(dpos[fr.axis], fr.pos) THEN WaitNext(op.vec, fr.axis + 1)
       ELSE pc' = FailedPc[pc] /\ fr' = fr
    /\ UNCHANGED <<fixed, ctl, backlash, last_set_position, last_set_backlash, device, op, prev, result, ncalls>>

\* the TP? queries of [axis.position for axis in self.axes], axes 1..n
ReadAll(n) == [a \in 1..n |-> position_ev(a)]

\* index of the first empty slot of axes; 0 if there is none
FirstNone(axs) ==
    LET S == {k \in 1..Len(axs) : axs[k] = <<>>}
    IN  IF S = {} THEN 0 ELSE Min(S)

\* 'return self.position' / 'pos = [axis.position for axis in self.axes]':
\* axis.position of an empty slot raises AttributeError
position_read ==
    /\ pc = "ctl_read"
    /\ LET n == FirstNone(ctl.axes)
       IN  IF n = 0
           THEN /\ log' = log \o ReadAll(Len(ctl.axes))
                /\ result' = [a \in 1..Len(ctl.axes) |-> <<dpos[a]>>]
                /\ ctl' = ctl
           ELSE /\ log' = log \o ReadAll(n - 1)
                /\ result' = <<>>
                /\ ctl' = [ctl EXCEPT !.raised = "AttributeError"]
    /\ pc' = "idle"
    /\ fr' = NoFrame
    /\ UNCHANGED <<fixed, backlash, last_set_position, last_set_backlash, device, op, prev, ncalls>>

\* axis._set_position of an empty slot: AttributeError leaves the position write
position_raise ==
    /\ pc = "raise"
    /\ ctl' = [ctl EXCEPT !.raised = "AttributeError"]
    /\ pc' = "idle"
    /\ fr' = NoFrame
    /\ UNCHANGED <<fixed, backlash, last_set_position, last_set_backlash, device, op, prev, log,
                   result, ncalls>>

----------------------------------------------------------------------------
(* Operations a caller starts *)

\* axis._set_position(pos, wait, force); ESP301Axis._set_position has no force
call_set_position(a, pos, w, f) ==
    /\ kind = "ESP301Axis" => ~f
    /\ Begin([name |-> "_set_position", ax |-> a, pos |-> pos,
              wait |-> ResolveWait(kind, w), force |-> f, vec |-> <<>>,
              wud |-> FALSE, lsp0 |-> last_set_position])
    /\ log' = <<>>
    /\ pc' = EntryPc
    /\ fr' = Frame(a, pos, ResolveWait(kind, w), f)
    /\ result' = <<>>
    /\ UNCHANGED <<last_set_position, last_set_backlash, device>>

\* axis.position = pos: MotionAxis passes wait=self.wait_until_done,
\* ESP301Axis leaves wait at None
position_setter(a, pos) ==
    call_set_position(a, pos,
        IF IsMotionAxis(kind) THEN <<wait_until_done>> ELSE <<>>, FALSE)

\* controller position write: MotionController._position(pos, wait_until_done)
\* with the deprecated read_pos left at None, or the ESP301 position setter
\* (which has no wait_until_done argument)
call_position(vec, wud) ==
    /\ kind = "ESP301Axis" => wud
    /\ Begin([name |-> "position", ax |-> 0, pos |-> 0, wait |-> FALSE,
              force |-> FALSE, vec |-> vec, wud |-> wud,
              lsp0 |-> last_set_position])
    /\ log' = <<>>
    /\ Dispatch(vec, wud, 1)
    /\ UNCHANGED <<last_set_position, last_set_backlash, device>>

\* axis.on(): '<n>MO'
on(a) ==
    /\ Begin([NoOp EXCEPT !.name = "on", !.ax = a, !.lsp0 = last_set_position])
    /\ log' = <<Ev(a, "MO", 0, 0)>>
    /\ enabled' = [enabled EXCEPT ![a] = TRUE]
    /\ result' = <<>>
    /\ UNCHANGED <<last_set_position, last_set_backlash, dpos, dtarget, moving, pc, fr>>

\* axis.off(): '<n>MF'; the device stops a motor it switches off
off(a) ==
    /\ Begin([NoOp EXCEPT !.name = "off", !.ax = a, !.lsp0 = last_set_position])
    /\ log' = <<Ev(a, "MF", 0, 0)>>
    /\ enabled' = [enabled EXCEPT ![a] = FALSE]
    /\ moving' = [moving EXCEPT ![a] = FALSE]
    /\ result' = <<>>
    /\ UNCHANGED <<last_set_position, last_set_backlash, dpos, dtarget, pc, fr>>

\* axis.stop(): '<n>ST'
stop(a) ==
    /\ Begin([NoOp EXCEPT !.name = "stop", !.ax = a, !.lsp0 = last_set_position])
    /\ log' = write_evs(a, "ST", 0)
    /\ DevST(a)
    /\ result' = <<>>
    /\ UNCHANGED <<last_set_position, last_set_backlash, pc, fr>>

\* axis.home(): '<n>OR'; ESP301Axis has no home
home(a) ==
    /\ IsMotionAxis(kind)
    /\ Begin([NoOp EXCEPT !.name = "home", !.ax = a, !.lsp0 = last_set_position])
    /\ log' = write_evs(a, "OR", 0)
    /\ DevOR(a)
    /\ result' = <<>>
    /\ UNCHANGED <<last_set_position, last_set_backlash, pc, fr>>

\* axis.define_home(val): '<n>DH<val>', val written with '%f'
define_home(a, val) ==
    /\ Begin([NoOp EXCEPT !.name = "define_home", !.ax = a, !.pos = val,
                          !.lsp0 = last_set_position])
    /\ log' = write_evs(a, "DH", Fmt(val))
    /\ DevDH(a, Fmt(val))
    /\ result' = <<>>
    /\ UNCHANGED <<last_set_position, last_set_backlash, pc, fr>>

\* axis.backlash = b, while the axis is set up (before the first operation)
set_backlash(a, b) ==
    /\ pc = "idle"
    /\ ncalls = 0
    /\ backlash[a] # b
    /\ backlash' = [backlash EXCEPT ![a] = b]
    /\ UNCHANGED <<fixed, ctl, last_set_position, last_set_backlash, device, pc, fr, op, prev, log,
                   result, ncalls>>

----------------------------------------------------------------------------
(* Steps of a running operation, and of the device *)

AxisStep ==
    \/ set_position_is_on
    \/ set_position_refresh
    \/ set_position_position
    \/ set_position_extra
    \/ set_position_wait_extra
    \/ set_position_final
    \/ set_position_wait_final
    \/ set_position_check
    \/ check_position_failed

(* Single-axis use: position writes, on/off, stop, home, define_home and
   backlash of the axes in AxisUse *)
Next ==
    \/ \E a \in AxisUse, pos \in Targets, w \in Opt(BOOLEAN), f \in BOOLEAN :
           call_set_position(a, pos, w, f)
    \/ \E a \in AxisUse, pos \in Targets : position_setter(a, pos)
    \/ \E a \in AxisUse : on(a)
    \/ \E a \in AxisUse : off(a)
    \/ \E a \in AxisUse : stop(a)
    \/ \E a \in AxisUse : home(a)
    \/ \E a \in AxisUse, val \in HomeVals : define_home(a, val)
    \/ \E a \in AxisUse, b \in Backlashes : set_backlash(a, b)
    \/ AxisStep
    \/ \E a \in Axes, err \in LandErr : DeviceArrive(a, err)

Spec == Init /\ [][Next]_vars

\* the driver thread runs: a step it can take is eventually taken
FairSpec == Spec /\ WF_vars(AxisStep)

(* Controller use: position writes of a vector and of single axes, off and
   stop of an axis, with backlash set per axis *)
NextCtl ==
    \/ \E vec \in Vectors, wud \in BOOLEAN : call_position(vec, wud)
    \/ \E a \in Axes, pos \in VecTargets : position_setter(a, pos)
    \/ \E a \in Axes : off(a)
    \/ \E a \in Axes : stop(a)
    \/ \E a \in Axes : \E b \in CtlBacklashes[a] : set_backlash(a, b)
    \/ AxisStep
    \/ position_wait
    \/ position_check
    \/ position_read
    \/ \E a \in Axes, err \in LandErr : DeviceArrive(a, err)

SpecCtl == Init /\ [][NextCtl]_vars

----------------------------------------------------------------------------
(* SMC100 axis: single-axis use and detect_axis of the controller, the device
   enabled or in its DISABLE state *)

\* axis.keypad_disable(): self.write('JD')
keypad_disable(a) ==
    /\ Begin([NoOp EXCEPT !.name = "keypad_disable", !.ax = a,
                          !.lsp0 = last_set_position])
    /\ log' = write_evs(a, "JD", 0)
    /\ result' = <<get_errors_ret(a, "JD")>>
    /\ UNCHANGED <<last_set_position, last_set_backlash, device, pc, fr>>

\* MotionAxisSMC100.on(): 'pass'
MotionAxisSMC100_on(a) ==
    /\ Begin([NoOp EXCEPT !.name = "on", !.ax = a, !.lsp0 = last_set_position])
    /\ log' = <<>>
    /\ result' = <<>>
    /\ UNCHANGED <<last_set_position, last_set_backlash, device, pc, fr>>

\* MotionAxisSMC100.off(): 'pass'
MotionAxisSMC100_off(a) ==
    /\ Begin([NoOp EXCEPT !.name = "off", !.ax = a, !.lsp0 = last_set_position])
    /\ log' = <<>>
    /\ result' = <<>>
    /\ UNCHANGED <<last_set_position, last_set_backlash, device, pc, fr>>

\* an initialized SMC100 whose every address holds a stage, at rest
InitSMC ==
    /\ kind = "MotionAxisSMC100"
    /\ ctl = [axes |-> [a \in 1..NumAxes |-> <<AxisObj(a)>>], scan_axes |-> FALSE,
              open |-> TRUE, raised |-> ""]
    /\ stage = [a \in Axes |-> StageOk]
    /\ probe = NoProbe
    /\ backlash = [a \in Axes |-> 0]
    /\ dpos = InitPos
    /\ dtarget = InitPos
    /\ moving = [a \in Axes |-> FALSE]
    /\ enabled \in [Axes -> BOOLEAN]
    /\ last_set_position = InitPos
    /\ last_set_backlash = [a \in Axes |-> 0]
    /\ pc = "idle"
    /\ fr = NoFrame
    /\ op = NoOp
    /\ prev = NoSummary
    /\ log = <<>>
    /\ result = <<>>
    /\ ncalls = 0

----------------------------------------------------------------------------
(* Discovery: initialize, detect_axis and finalize of ESP301 and SMC100, and
   the controller position of what was discovered *)

\* the answer of address i: past the last address an ESP301 reports 'axis
\* number out of range' and an SMC100 chain answers with an empty identifier
StageAt(i) ==
    IF i \in Axes THEN stage[i]
    ELSE IF kind = "ESP301Axis" THEN [id |-> <<>>, te |-> AxisRange]
    ELSE [id |-> <<"">>, te |-> 0]

\* what an address may answer: an identifier (possibly empty), or nothing,
\* the query then failing (on an ESP301 with an error code to read)
Answers(k) ==
    IF k = "ESP301Axis"
    THEN {[id |-> <<x>>, te |-> 0] : x \in {"stage", ""}}
         \cup {[id |-> <<>>, te |-> e] : e \in ErrCodes}
    ELSE {[id |-> x, te |-> 0] : x \in Opt({"stage", ""})}

\* variant: the two known codes exchanged
OnError_swapped(err) ==
    IF err = AxisRange THEN "slot" ELSE IF err = AxisMissing THEN "stop" ELSE "raise"

\* variant: a missing axis leaves no slot
OnError_skip(err) ==
    IF err = AxisMissing THEN "skip" ELSE IF err = AxisRange THEN "stop" ELSE "raise"

\* variant: no code ends the scan
OnError_slots(err) == "slot"

\* ESP301.detect_axis, the except branch: what error code err leads to
OnError(err) ==
    IF err = AxisMissing THEN "slot" ELSE IF err = AxisRange THEN "stop" ELSE "raise"

\* SMC100.detect_axis: the test of the identifier for the empty string
ScanEnds(id) == id = ""

\* one pass of the loop of ESP301.detect_axis; the constructor of the axis
\* discovered sets its backlash to 0
ESP301_detect_axis ==
    /\ pc = "detect"
    /\ kind = "ESP301Axis"
    /\ fr.axis < MaxAddr
    /\ LET i == fr.axis + 1
           st == StageAt(i)
           v == OnError(st.te)
       IN  IF st.id # <<>>
           THEN /\ log' = Append(log, Ev(i, "ID?", 0, B2I(st.id[1] # "")))
                /\ ctl' = [ctl EXCEPT !.axes = Append(@, <<AxisObj(i)>>)]
                /\ backlash' = [backlash EXCEPT ![i] = 0]
                /\ pc' = "detect"
                /\ fr' = Frame(i, 0, FALSE, FALSE)
           ELSE /\ log' = log \o <<Ev(i, "ID?", 0, -1), Ev(0, "TE?", 0, st.te)>>
                /\ ctl' = CASE v = "slot" -> [ctl EXCEPT !.axes = Append(@, <<>>)]
                            [] v = "stop" -> [ctl EXCEPT !.scan_axes = FALSE]
                            [] v = "raise" -> [ctl EXCEPT !.raised = "Exception"]
                            [] OTHER -> ctl
                /\ backlash' = backlash
                /\ IF v \in {"stop", "raise"}
                   THEN pc' = "idle" /\ fr' = NoFrame
                   ELSE pc' = "detect" /\ fr' = Frame(i, 0, FALSE, FALSE)
    /\ UNCHANGED <<fixed, last_set_position, last_set_backlash, device, op, prev, result,
                   ncalls>>

\* one pass of the loop of SMC100.detect_axis, up to the answer to the
\* identity query: the query fails, or the scan ends, or the axis constructor
\* starts
SMC100_detect_axis ==
    /\ pc = "detect"
    /\ kind = "MotionAxisSMC100"
    /\ fr.axis < MaxAddr
    /\ LET i == fr.axis + 1
           st == StageAt(i)
       IN  IF st.id = <<>>
           THEN /\ log' = Append(log, Ev(i, "ID?", 0, -1))
                /\ ctl' = [ctl EXCEPT !.raised = "VisaIOError"]
                /\ pc' = "idle"
                /\ fr' = NoFrame
           ELSE IF ScanEnds(st.id[1])
           THEN /\ log' = Append(log, Ev(i, "ID?", 0, 0))
                /\ pc' = "idle"
                /\ fr' = NoFrame
                /\ ctl' = ctl
           ELSE /\ log' = Append(log, Ev(i, "ID?", 0, 1))
                /\ pc' = "init_position"
                /\ fr' = Frame(i, 0, FALSE, FALSE)
                /\ ctl' = ctl
    /\ UNCHANGED <<fixed, backlash, last_set_position, last_set_backlash, device, op, prev,
                   result, ncalls>>

\* MotionAxis.__init__ of the axis discovered: 'self.backlash = 0', and
\* 'self.position' fills the position cache
MotionAxis_init_position ==
    /\ pc = "init_position"
    /\ backlash' = [backlash EXCEPT ![fr.axis] = 0]
    /\ log' = Append(log, position_ev(fr.axis))
    /\ pc' = "init_last_set_position"
    /\ UNCHANGED <<fixed, ctl, last_set_position, last_set_backlash, device,
                   fr, op, prev, result, ncalls>>

\* MotionAxis.__init__: 'self.last_set_position = self.position.magnitude'
\* reads the position again; the axis built is appended to axes and the loop
\* of detect_axis goes on
MotionAxis_init_last_set_position ==
    /\ pc = "init_last_set_position"
    /\ log' = Append(log, position_ev(fr.axis))
    /\ last_set_position' = [last_set_position EXCEPT ![fr.axis] = dpos[fr.axis]]
    /\ last_set_backlash' = [last_set_backlash EXCEPT ![fr.axis] = 0]
    /\ ctl' = [ctl EXCEPT !.axes = Append(@, <<AxisObj(fr.axis)>>)]
    /\ pc' = "detect"
    /\ UNCHANGED <<fixed, backlash, device, fr, op, prev, result, ncalls>>

\* controller.initialize(): the transport opens; ESP301 sets scan_axes and
\* axes, then detect_axis()
initialize ==
    /\ ~ctl.open
    /\ BeginOp([NoOp EXCEPT !.name = "initialize", !.lsp0 = last_set_position])
    /\ ctl' = [axes |-> <<>>,
               scan_axes |-> IF kind = "ESP301Axis" THEN TRUE ELSE ctl.scan_axes,
               open |-> TRUE, raised |-> ""]
    /\ log' = <<>>
    /\ result' = <<>>
    /\ pc' = "detect"
    /\ fr' = NoFrame
    /\ UNCHANGED <<last_set_position, last_set_backlash, device>>

\* controller.detect_axis(), called by the user: axes = [], then the loop;
\* ESP301 runs it 'while self.scan_axes', SMC100 with a local flag set True
detect_axis ==
    /\ ctl.open
    /\ BeginOp([NoOp EXCEPT !.name = "detect_axis", !.lsp0 = last_set_position])
    /\ ctl' = [ctl EXCEPT !.axes = <<>>, !.raised = ""]
    /\ log' = <<>>
    /\ result' = <<>>
    /\ pc' = IF kind = "ESP301Axis" /\ ~ctl.scan_axes THEN "idle" ELSE "detect"
    /\ fr' = NoFrame
    /\ UNCHANGED <<last_set_position, last_set_backlash, device>>

\* references to the axis object of slot k once 'del (axis)' has unbound the
\* loop variable: the slots of self.axes that hold it
RefsLeft(axs, k) == Cardinality({j \in 1..Len(axs) : axs[j] = axs[k]})

\* axes after the loops of finalize: __del__ (parent = None, num = None) runs
\* on an object no reference is left to
Released(axs) ==
    [k \in 1..Len(axs) |->
        IF axs[k] # <<>> /\ RefsLeft(axs, k) = 0
        THEN <<[num |-> 0, parent |-> FALSE]>> ELSE axs[k]]

\* controller.finalize(): 'for axis in self.axes: if axis is not None:
\* del (axis)', then the transport closes
finalize ==
    /\ ctl.open
    /\ BeginOp([NoOp EXCEPT !.name = "finalize", !.lsp0 = last_set_position])
    /\ ctl' = [ctl EXCEPT !.axes = Released(@), !.open = FALSE, !.raised = ""]
    /\ log' = <<>>
    /\ result' = <<>>
    /\ UNCHANGED <<last_set_position, last_set_backlash, device, pc, fr>>

\* controller.position (getter)
position_get ==
    /\ Begin([NoOp EXCEPT !.name = "position_get", !.lsp0 = last_set_position])
    /\ log' = <<>>
    /\ result' = <<>>
    /\ pc' = "ctl_read"
    /\ fr' = NoFrame
    /\ UNCHANGED <<last_set_position, last_set_backlash, device>>

\* vectors of a position write after discovery
VecDetect == [1..NumAxes -> Opt(VecTargets)]

\* a constructed, not yet initialized controller on a device at rest
InitDetect ==
    /\ kind \in {"ESP301Axis", "MotionAxisSMC100"}
    /\ ctl = [axes |-> <<>>, scan_axes |-> FALSE, open |-> FALSE, raised |-> ""]
    /\ stage \in [Axes -> Answers(kind)]
    /\ probe = NoProbe
    /\ backlash = [a \in Axes |-> 0]
    /\ dpos = InitPos
    /\ dtarget = InitPos
    /\ moving = [a \in Axes |-> FALSE]
    /\ enabled = [a \in Axes |-> TRUE]
    /\ last_set_position = [a \in Axes |-> 0]
    /\ last_set_backlash = [a \in Axes |-> 0]
    /\ pc = "idle"
    /\ fr = NoFrame
    /\ op = NoOp
    /\ prev = NoSummary
    /\ log = <<>>
    /\ result = <<>>
    /\ ncalls = 0

NextDetect ==
    \/ initialize
    \/ detect_axis
    \/ finalize
    \/ position_get
    \/ kind = "ESP301Axis" /\ \E vec \in VecDetect : call_position(vec, TRUE)
    \/ ESP301_detect_axis
    \/ SMC100_detect_axis
    \/ MotionAxis_init_position
    \/ MotionAxis_init_last_set_position
    \/ set_position_position
    \/ set_position_final
    \/ position_wait
    \/ position_read
    \/ position_raise
    \/ \E a \in Axes : DeviceArrive(a, 0)

SpecDetect == InitDetect /\ [][NextDetect]_vars

(* SMC100 axis: the operations of an axis, and detect_axis of the controller *)
NextSMC ==
    \/ \E a \in AxisUse, pos \in Targets, w \in Opt(BOOLEAN), f \in BOOLEAN :
           call_set_position(a, pos, w, f)
    \/ \E a \in AxisUse, pos \in Targets : position_setter(a, pos)
    \/ \E a \in AxisUse : keypad_disable(a)
    \/ \E a \in AxisUse : MotionAxisSMC100_on(a)
    \/ \E a \in AxisUse : MotionAxisSMC100_off(a)
    \/ \E a \in AxisUse : stop(a)
    \/ \E a \in AxisUse : home(a)
    \/ \E a \in AxisUse, val \in HomeVals : define_home(a, val)
    \/ \E a \in AxisUse, b \in Backlashes : set_backlash(a, b)
    \/ detect_axis
    \/ SMC100_detect_axis
    \/ MotionAxis_init_position
    \/ MotionAxis_init_last_set_position
    \/ AxisStep
    \/ \E a \in Axes, err \in LandErr : DeviceArrive(a, err)

SpecSMC == InitSMC /\ [][NextSMC]_vars

----------------------------------------------------------------------------
(* String level: MotionAxisSMC100.query on a response, get_errors on a code *)

\* responses a device may give: an echo of some axis and command with a
\* payload, or nothing
Responses == {Digits(m) \o Take(d, CmdLen) \o pl :
                 m \in Nums, d \in Commands, pl \in Payloads} \cup {<<>>}

ProbeInputs ==
    {[NoProbe EXCEPT !.fn = "query", !.num = n, !.command = c, !.respons = r] :
        n \in Nums, c \in Commands, r \in Responses}
    \cup {[NoProbe EXCEPT !.fn = "get_errors", !.respons = r] : r \in Rets}

\* MotionAxisSMC100.query(command) receives respons
MotionAxisSMC100_query ==
    /\ probe.fn = "query"
    /\ ~probe.done
    /\ LET q == query(probe.num, probe.command, probe.respons)
       IN  probe' = [probe EXCEPT !.done = TRUE, !.logged = q.logged, !.ret = q.ret]
    /\ UNCHANGED <<kind, ctl, stage, backlash, last_set_position, last_set_backlash, device, pc, fr,
                   op, prev, log, result, ncalls>>

\* MotionAxisSMC100.get_errors() whose 'TE?' query returned respons
MotionAxisSMC100_get_errors ==
    /\ probe.fn = "get_errors"
    /\ ~probe.done
    /\ LET err == get_errors(probe.respons)
       IN  probe' = [probe EXCEPT !.done = TRUE, !.logged = ErrorLogged(err),
                                 !.ret = err]
    /\ UNCHANGED <<kind, ctl, stage, backlash, last_set_position, last_set_backlash, device, pc, fr,
                   op, prev, log, result, ncalls>>

InitPure ==
    /\ kind = "MotionAxisSMC100"
    /\ ctl = [axes |-> [a \in 1..NumAxes |-> <<AxisObj(a)>>], scan_axes |-> FALSE,
              open |-> TRUE, raised |-> ""]
    /\ stage = [a \in Axes |-> StageOk]
    /\ probe \in ProbeInputs
    /\ backlash = [a \in Axes |-> 0]
    /\ dpos = InitPos
    /\ dtarget = InitPos
    /\ moving = [a \in Axes |-> FALSE]
    /\ enabled = [a \in Axes |-> TRUE]
    /\ last_set_position = InitPos
    /\ last_set_backlash = [a \in Axes |-> 0]
    /\ pc = "idle"
    /\ fr = NoFrame
    /\ op = NoOp
    /\ prev = NoSummary
    /\ log = <<>>
    /\ result = <<>>
    /\ ncalls = 0

NextPure ==
    \/ MotionAxisSMC100_query
    \/ MotionAxisSMC100_get_errors

SpecPure == InitPure /\ [][NextPure]_vars

----------------------------------------------------------------------------
(* Properties *)

Max(S) == CHOOSE x \in S : \A y \in S : x >= y
Has(l, c) == \E i \in 1..Len(l) : l[i].cmd = c
Where(l, c) == {i \in 1..Len(l) : l[i].cmd = c}
\* the position answer the call last received before its first PA
CurPos(l) == l[Max({i \in Where(l, "TP?") : i < Min(Where(l, "PA"))})].reply

\* a caller's _set_position has returned, neither aborted nor skipped
MovedCall ==
    /\ pc = "idle"
    /\ op.name = "_set_position"
    /\ ~Has(log, "log_error: Axis not enabled")
    /\ ~Has(log, "log_info: No need to set")

\* C1: an enabled, not skipped _set_position(target) sends PA(target + backlash)
\* first exactly when (backlash < 0 and current > target) or (backlash > 0
\* and current < target); its last PA is PA(target); with backlash = 0 it
\* sends PA(target) alone.  MotionAxis and ESP301Axis.
C1_BacklashMove ==
    MovedCall =>
        /\ NPA(log) >= 1
        /\ LET a == op.ax
               t == op.pos
               b == backlash[a]
               cur == CurPos(log)
           IN  PAs(log) =
                 IF (b < 0 /\ cur > t) \/ (b > 0 /\ cur < t)
                 THEN <<Ev(a, "PA", FmtSum(t, b), 0), Ev(a, "PA", Fmt(t), 0)>>
                 ELSE <<Ev(a, "PA", Fmt(t), 0)>>

\* backlash -0.5 mm, at 10 mm, target 5.0000004 mm: PA4.500000 then PA5.000000
C1_Witness ==
    /\ MovedCall
    /\ kind = "MotionAxis"
    /\ backlash[1] = -5000000
    /\ Has(log, "log_info: Using backlash")
    /\ PAs(log) = <<Ev(1, "PA", 45000000, 0), Ev(1, "PA", 50000000, 0)>>

\* C2: between the extra move PA(target + backlash) and the final PA(target)
\* of an axis, a motion_done poll of that axis has returned true; for every
\* axis class and every wait value.
C2_WaitBetweenMoves ==
    \A i, j \in Where(log, "PA") :
        (i < j /\ log[i].ax = log[j].ax) =>
            \E k \in (i + 1)..(j - 1) : log[k] = Ev(log[i].ax, "MD?", 0, 1)

\* C3 as stated: on a disabled axis _set_position logs an error, sends no PA,
\* does not poll and leaves last_set_position alone, for both axis classes.
C3_Original ==
    (op.name = "_set_position" /\ ~enabled[op.ax]) =>
        /\ NPA(log) = 0
        /\ ~Has(log, "MD?")
        /\ last_set_position = op.lsp0
        /\ pc = "idle" => Has(log, "log_error: Axis not enabled")

\* C3, amended: on a MotionAxis whose MO? answer decodes to false the call is
\* MO?, the error log, and nothing else, and last_set_position is unchanged;
\* ESP301Axis._set_position makes no MO? query at all.
C3_DisabledAbort ==
    op.name = "_set_position" =>
        /\ (kind = "MotionAxis" /\ Has(log, "MO?") /\ ~enabled[op.ax]) =>
              /\ log = <<Ev(op.ax, "MO?", 0, 0),
                         Ev(op.ax, "log_error: Axis not enabled", 0, 0)>>
              /\ pc = "idle"
              /\ last_set_position = op.lsp0
        /\ kind = "ESP301Axis" => ~Has(log, "MO?")

\* a forced write with backlash set, on a disabled MotionAxis, has aborted
C3_Witness ==
    /\ pc = "idle"
    /\ kind = "MotionAxis"
    /\ op.name = "_set_position"
    /\ op.force
    /\ backlash[op.ax] # 0
    /\ ~enabled[op.ax]
    /\ Has(log, "log_error: Axis not enabled")

\* two _set_position calls in a row on an enabled MotionAxis, same target,
\* force=False, the second has returned
TwiceInARow ==
    /\ pc = "idle"
    /\ kind = "MotionAxis"
    /\ op.name = "_set_position"
    /\ prev.name = "_set_position"
    /\ prev.ax = op.ax
    /\ prev.pos = op.pos
    /\ ~prev.force
    /\ ~op.force
    /\ enabled[op.ax]

\* C4 as stated: the two calls send exactly one PA in total and the second
\* sends none and leaves last_set_position alone.
C4_Original ==
    TwiceInARow =>
        /\ prev.npa + NPA(log) = 1
        /\ NPA(log) = 0
        /\ last_set_position = op.lsp0

\* C4, amended: the second call is a no-op (no PA, last_set_position
\* unchanged) exactly when the position it reads is within the tolerance of
\* the target; the two calls then send the PAs of the first alone (at most 2).
C4_SecondCallNoOp ==
    TwiceInARow =>
        LET r == log[2].reply
            close == isclose(op.pos, r, Accuracy)
        IN  /\ log[2].cmd = "TP?"
            /\ close => /\ NPA(log) = 0
                        /\ last_set_position = op.lsp0
                        /\ prev.npa \in 0..2
            /\ ~close => NPA(log) >= 1

\* the first call moved and waited, the second was a no-op
C4_Witness ==
    /\ TwiceInARow
    /\ prev.wait
    /\ prev.npa = 1
    /\ NPA(log) = 0

\* C5: a MotionAxis._set_position with wait true that issued a move returns
\* only after a motion_done poll following the final PA(target) returned
\* true and check_position(target) was then evaluated; a position read by
\* that check that is outside the accuracy tolerance (further than accuracy
\* from the target) has its error logged and the check answers False, and
\* the call returns all the same.
C5_WaitThenCheck ==
    (MovedCall /\ kind = "MotionAxis" /\ op.wait) =>
        LET a == op.ax
            t == op.pos
            n == Len(log)
            k == Max(Where(log, "PA"))
        IN  /\ log[k] = Ev(a, "PA", Fmt(t), 0)
            /\ \E m \in (k + 1)..(n - 2) :
                 /\ log[m] = Ev(a, "MD?", 0, 1)
                 /\ log[m + 1].cmd = "TP?"
                 /\ Where(log, "check_position") = {n}
                 /\ log[n].ax = a
                 /\ log[n].arg = t
                 /\ log[n].reply = 0 =>
                      log[n - 1].cmd = "log_error: Position accuracy is not reached"
                 /\ Abs(log[m + 1].reply - t) > Accuracy => log[n].reply = 0

\* the axes a controller position write has a value for
Present == {j \in 1..Len(op.vec) : j <= NumAxes /\ op.vec[j] # <<>>}

\* a waiting controller position write has returned
WaitedWrite ==
    /\ pc = "idle"
    /\ op.name = "position"
    /\ kind = "ESP301Axis" \/ op.wud

\* C6: a controller position write sends PA commands and motion_done polls
\* only to axes whose entry of pos is present; an axis whose entry is None or
\* lies beyond the length of pos gets neither; a waiting write polls every
\* present axis.  MotionController._position and the ESP301 setter.
C6_OnlyPresentAxes ==
    op.name = "position" =>
        /\ \A i \in 1..Len(log) :
              log[i].cmd \in {"PA", "MD?"} => log[i].ax \in Present
        /\ WaitedWrite =>
              \A j \in Present : \E i \in Where(log, "MD?") : log[i].ax = j

\* position = [5.0000004, None]: PA and polls on axis 1 alone
C6_Witness ==
    /\ WaitedWrite
    /\ op.vec = << <<50000004>>, <<>> >>
    /\ \E i \in Where(log, "PA") : log[i].ax = 1
    /\ \E i \in Where(log, "MD?") : log[i].ax = 1
    /\ Len(result) = NumAxes

\* C7 as stated: in a controller position write no motion_done poll happens
\* before the last PA of the dispatch, whatever the backlash of the axes.
C7_Original ==
    op.name = "position" =>
        \A m \in Where(log, "MD?"), k \in Where(log, "PA") : k < m

\* C7, amended: a motion_done poll that precedes a PA of the write is a poll
\* by which a MotionAxis with backlash waits for its own extra move: the PA
\* before it is that axis's PA(target + backlash), the PA after it that
\* axis's PA(target).  With the ESP301 no poll precedes a PA.
C7_DispatchPolls ==
    op.name = "position" =>
        \A m \in Where(log, "MD?") :
            LET after == {k \in Where(log, "PA") : k > m}
                before == {k \in Where(log, "PA") : k < m}
                a == log[m].ax
            IN  after # {} =>
                  /\ kind = "MotionAxis"
                  /\ backlash[a] # 0
                  /\ before # {}
                  /\ log[Max(before)] =
                         Ev(a, "PA", FmtSum(op.vec[a][1], backlash[a]), 0)
                  /\ log[Min(after)] = Ev(a, "PA", Fmt(op.vec[a][1]), 0)

\* axis 1 was polled during its extra move before axis 2 got its PA
C7_Witness ==
    /\ pc = "idle"
    /\ op.name = "position"
    /\ \E m \in Where(log, "MD?"), k \in Where(log, "PA") :
           m < k /\ log[m].ax = 1 /\ log[k].ax = 2

\* every dispatched axis was seen motion-done, and the result is the answers
\* of the TP? queries of all axes that end the log
WaitedAndRead ==
    LET n == Len(log)
    IN  /\ \A j \in Present : Ev(j, "MD?", 0, 1) \in {log[i] : i \in 1..n}
        /\ n >= NumAxes
        /\ \A a \in 1..NumAxes :
              /\ log[n - NumAxes + a].cmd = "TP?"
              /\ log[n - NumAxes + a].ax = a
              /\ result[a] = <<log[n - NumAxes + a].reply>>
        /\ \A m \in Where(log, "MD?") : m <= n - NumAxes
        /\ Len(result) = NumAxes

\* position p of axis j was verified by check_position after j was seen done
Verified(j) ==
    \E m \in Where(log, "MD?"), c \in Where(log, "check_position") :
        /\ m < c
        /\ log[m] = Ev(j, "MD?", 0, 1)
        /\ log[c].ax = j
        /\ log[c].arg = op.vec[j][1]

\* C8 as stated: a waiting controller position write returns only after every
\* dispatched axis was seen motion-done and verified with check_position,
\* and returns a freshly read position vector; for both controllers.
C8_Original ==
    WaitedWrite => (WaitedAndRead /\ \A j \in Present : Verified(j))

\* C8, amended: as stated for MotionController._position; the ESP301 setter
\* waits for every dispatched axis and reads all positions afresh, but
\* calls no check_position.
C8_WaitVerifyRead ==
    WaitedWrite =>
        /\ WaitedAndRead
        /\ kind = "MotionAxis" => \A j \in Present : Verified(j)
        /\ kind = "ESP301Axis" => ~Has(log, "check_position")

\* both axes were dispatched, waited for and verified
C8_Witness ==
    /\ WaitedWrite
    /\ kind = "MotionAxis"
    /\ Present = {1, 2}
    /\ Verified(1)
    /\ Verified(2)

\* _wait_until_done is left only on a motion_done poll answered true
WaitLeft ==
    (pc \in WaitPcs /\ pc' # pc) => log'[Len(log')] = Ev(fr.axis, "MD?", 0, 1)

\* a running _wait_until_done sends nothing but motion_done polls of its axis
WaitSends ==
    pc \in WaitPcs =>
        \/ log' = log
        \/ /\ log' = Append(log, log'[Len(log')])
           /\ log'[Len(log')].cmd = "MD?"
           /\ log'[Len(log')].ax = fr.axis

\* C9: _wait_until_done has no timeout: it is left only by a motion_done
\* poll of the axis that returned true; while it runs nothing but such
\* polls goes over the transport; once the axis is done the loop ends.
C9_NoTimeout ==
    /\ [][WaitLeft]_vars
    /\ [][WaitSends]_vars
    /\ (pc \in WaitPcs /\ ~moving[fr.axis]) ~> (pc \notin WaitPcs)

\* the loop is running on an axis that has answered 'not done'
C9_Witness ==
    /\ pc = "wait_final"
    /\ moving[fr.axis]
    /\ log[Len(log)] = Ev(fr.axis, "MD?", 0, 0)

\* C10: check_position(pos) is true exactly when |current - pos| <= accuracy
C10_CheckPosition ==
    \A c \in Where(log, "check_position") :
        LET current == IF log[c].reply = 1 THEN log[c - 1].reply
                       ELSE log[c - 3].reply
        IN  (log[c].reply = 1) <=> (Abs(current - log[c].arg) <= Accuracy)

----------------------------------------------------------------------------
(* Properties of discovery *)

\* op is a discovery: its log holds the exchanges of detect_axis
Discovery == op.name \in {"initialize", "detect_axis"}
\* the identity query at index p of the log failed / was answered
FailedAt(p) == IsID(log[p]) /\ log[p].reply = -1
AnsweredAt(p) == IsID(log[p]) /\ log[p].reply >= 0
\* the error code read after the failed identity query at index p
CodeAt(p) == log[p + 1].reply
\* no identity query after index p
LastProbe(p) == \A q \in (p + 1)..Len(log) : ~IsID(log[q])

\* C11: ESP301.detect_axis sends the identity queries to the addresses 1, 2,
\* 3, ... in this order; a failed identity query is followed at once by 'TE?'
\* (and 'TE?' is sent at no other time); on code 37 the slot of that address
\* is empty and the next exchange is the identity query of the next address;
\* on code 9 the scan is over without a fault, scan_axes is false and axes
\* holds the slots of the addresses before; on any other code the scan is
\* over with an exception raised; an answered address has its axis in axes.
C11_ErrorCodes ==
    (kind = "ESP301Axis" /\ Discovery) =>
        /\ \A k \in 1..Len(IDs(log)) : IDs(log)[k].ax = k
        /\ \A p \in 1..Len(log) :
            /\ log[p].cmd = "TE?" => p > 1 /\ FailedAt(p - 1)
            /\ AnsweredAt(p) =>
                  /\ Len(ctl.axes) >= log[p].ax
                  /\ ctl.axes[log[p].ax] = <<AxisObj(log[p].ax)>>
            /\ FailedAt(p) =>
                  /\ p < Len(log)
                  /\ log[p + 1].cmd = "TE?"
                  /\ LET i == log[p].ax
                     IN  IF CodeAt(p) = AxisMissing
                         THEN /\ Len(ctl.axes) >= i
                              /\ ctl.axes[i] = <<>>
                              /\ IF p + 1 = Len(log) THEN pc = "detect"
                                 ELSE IsID(log[p + 2]) /\ log[p + 2].ax = i + 1
                         ELSE IF CodeAt(p) = AxisRange
                         THEN /\ p + 1 = Len(log)
                              /\ pc = "idle"
                              /\ ctl.raised = ""
                              /\ ~ctl.scan_axes
                              /\ Len(ctl.axes) = i - 1
                         ELSE /\ p + 1 = Len(log)
                              /\ pc = "idle"
                              /\ ctl.raised = "Exception"

\* address 1 answers with error 37, address 2 with error 9: one empty slot
C11_Witness ==
    /\ kind = "ESP301Axis"
    /\ op.name = "initialize"
    /\ pc = "idle"
    /\ log = <<Ev(1, "ID?", 0, -1), Ev(0, "TE?", 0, AxisMissing),
               Ev(2, "ID?", 0, -1), Ev(0, "TE?", 0, AxisRange)>>
    /\ ctl.axes = <<<<>>>>
    /\ ctl.raised = ""

\* C12: after detect_axis has completed, on ESP301 and on SMC100, every
\* entry of axes that is not empty is at (1-based) index k the axis of
\* address k, i.e. at 0-based index k - 1 the axis of address (k - 1) + 1.
C12_AddressIsIndex ==
    (Discovery /\ pc = "idle") =>
        \A k \in 1..Len(ctl.axes) :
            ctl.axes[k] # <<>> => ctl.axes[k][1].num = k

\* ESP301: address 1 answers with error 37 and address 2 holds a stage
C12_Witness ==
    /\ Discovery
    /\ pc = "idle"
    /\ kind = "ESP301Axis"
    /\ Len(ctl.axes) = NumAxes
    /\ ctl.axes[1] = <<>>
    /\ ctl.axes[NumAxes] = <<AxisObj(NumAxes)>>

\* C13 as stated: after an identity query answered with an empty identifier,
\* or failed with error 37 or 9, no higher address is probed (both drivers).
C13_Original ==
    Discovery =>
        \A p \in 1..Len(log) :
            (\/ IsID(log[p]) /\ log[p].reply = 0
             \/ FailedAt(p) /\ p < Len(log) /\ CodeAt(p) \in {AxisMissing, AxisRange})
            => LastProbe(p)

\* C13 (amended): ESP301.detect_axis probes no higher address and has
\* terminated after an identity query that failed with error 9; SMC100's
\* after an identity query answered with an empty identifier.
C13_StopsAtRange ==
    Discovery =>
        \A p \in 1..Len(log) :
            (\/ kind = "MotionAxisSMC100" /\ IsID(log[p]) /\ log[p].reply = 0
             \/ kind = "ESP301Axis" /\ FailedAt(p) /\ p < Len(log)
                /\ CodeAt(p) = AxisRange)
            => LastProbe(p) /\ pc = "idle"

\* SMC100: address 1 holds a stage, address 2 answers with an empty identifier
C13_Witness ==
    /\ Discovery
    /\ kind = "MotionAxisSMC100"
    /\ pc = "idle"
    /\ Len(ctl.axes) = 1
    /\ log # <<>>
    /\ log[Len(log)] = Ev(Len(ctl.axes) + 1, "ID?", 0, 0)

\* C14: on an ESP301 whose axes holds an empty slot, a controller position
\* read or write returns without raising, a sequence as long as axes with
\* None at the empty slots and the position of every other axis, and it
\* sends no move to the address of an empty slot.
C14_EmptySlots ==
    (/\ kind = "ESP301Axis"
     /\ op.name \in {"position_get", "position"}
     /\ pc = "idle"
     /\ FirstNone(ctl.axes) # 0) =>
        /\ ctl.raised = ""
        /\ result = [k \in 1..Len(ctl.axes) |->
                        IF ctl.axes[k] = <<>> THEN <<>> ELSE <<dpos[k]>>]
        /\ \A p \in 1..Len(log) : IsPA(log[p]) => ctl.axes[log[p].ax] # <<>>

\* C20: after finalize has returned, the transport is closed and every axis
\* of axes has its parent reference and its address cleared.
C20_Released ==
    (op.name = "finalize" /\ pc = "idle") =>
        /\ ~ctl.open
        /\ \A k \in 1..Len(ctl.axes) :
              ctl.axes[k] # <<>> => ~ctl.axes[k][1].parent /\ ctl.axes[k][1].num = 0

\* C21: a second ESP301.detect_axis, after a scan that ended on error 9 on a
\* device that answers as before, sends the same identity queries as the
\* first and leaves the same axes.
C21_SameAxes ==
    (/\ kind = "ESP301Axis"
     /\ op.name = "detect_axis"
     /\ pc = "idle"
     /\ prev.name \in {"initialize", "detect_axis"}
     /\ prev.raised = "") =>
        /\ IDs(log) = prev.ids
        /\ ctl.axes = prev.axes

----------------------------------------------------------------------------
(* Properties of the SMC100 axis *)

IsWrite(e) == e.cmd \in {"PA", "JD", "ST", "OR", "DH"}
\* the message get_errors decodes the logged code n to
MessageOf(n) == get_errors(<<Letters[n - 63]>>)

\* C15: on an SMC100 axis every write is followed at once by one 'TE?' on the
\* same axis, and by no second one; a code that decodes to a non-empty message
\* is logged next as an axis error (an empty one is not), nothing is raised,
\* and what the operation sends next is the poll of its wait.
C15_WriteThenErrors ==
    kind = "MotionAxisSMC100" =>
        /\ ctl.raised = ""
        /\ \A p \in 1..Len(log) :
              IsWrite(log[p]) =>
                  /\ p < Len(log)
                  /\ log[p + 1].cmd = "TE?"
                  /\ log[p + 1].ax = log[p].ax
                  /\ IF MessageOf(log[p + 1].reply) # <<>>
                     THEN /\ p + 2 <= Len(log)
                          /\ log[p + 2] = Ev(log[p].ax, "log_error: Axis error",
                                             log[p + 1].reply, 0)
                          /\ p + 2 < Len(log) => log[p + 3].cmd = "TP?"
                     ELSE p + 1 < Len(log) => log[p + 2].cmd = "TP?"

\* a refused 'PA' (axis in DISABLE state), logged, and the wait that follows
C15_Witness ==
    /\ kind = "MotionAxisSMC100"
    /\ \E p \in 1..Len(log) :
          /\ IsPA(log[p])
          /\ p + 2 < Len(log)
          /\ log[p + 1] = Ev(log[p].ax, "TE?", 0, Ord("J"))
          /\ log[p + 2].cmd = "log_error: Axis error"
          /\ log[p + 3].cmd = "TP?"

\* C16: on an SMC100 axis a position write whose 'PA' the device refused, the
\* stage standing still, does not stay in its wait: the loop of
\* _wait_until_done ends.
C16_Returns ==
    (/\ kind = "MotionAxisSMC100"
     /\ pc \in {"wait_extra", "wait_final"}
     /\ Has(log, "log_error: Axis error")
     /\ ~moving[fr.axis]) =>
        LoopExits(motion_done_reply(fr.axis))

----------------------------------------------------------------------------
(* Properties of the string-level calls *)

\* C17: MotionAxisSMC100.query of axis num on command and respons: if respons
\* begins with the digits of num followed by the first two characters of
\* command, no mismatch is logged and the value returned is respons without
\* that prefix; otherwise the mismatch is logged and respons[3:] is returned.
C17_EchoCheck ==
    (probe.fn = "query" /\ probe.done) =>
        LET echo == Digits(probe.num) \o Take(probe.command, CmdLen)
        IN  IF Take(probe.respons, Len(echo)) = echo
            THEN ~probe.logged /\ probe.ret = Drop(probe.respons, Len(echo))
            ELSE probe.logged /\ probe.ret = Drop(probe.respons, EchoLen)

\* the letters 'A' .. 'M'
MappedRange == {Letters[n] : n \in 2..14}

\* C18: get_errors decodes '@' to the empty message and logs nothing; a code
\* of the table other than '@' (all of them letters of 'A'..'M') to its
\* description, which is not empty; any other single character to a message
\* that contains the character; and it logs exactly the non-empty results.
C18_Decode ==
    (probe.fn = "get_errors" /\ probe.done) =>
        LET c == probe.respons
        IN  /\ c = <<"@">> => probe.ret = <<>> /\ ~probe.logged
            /\ (Len(c) = 1 /\ c[1] \in DOMAIN ERRORS /\ c[1] # "@") =>
                  /\ c[1] \in MappedRange
                  /\ ERRORS[c[1]] # ""
                  /\ probe.ret = <<ERRORS[c[1]]>>
            /\ (Len(c) = 1 /\ c[1] \notin DOMAIN ERRORS) =>
                  \E k \in 1..Len(probe.ret) : probe.ret[k] = c[1]
            /\ probe.logged <=> probe.ret # <<>>

\* 'F' is a letter of 'A'..'M' the table does not map: the fallback, logged
C18_Witness ==
    /\ probe.fn = "get_errors"
    /\ probe.done
    /\ probe.respons = <<"F">>
    /\ probe.logged
    /\ probe.ret # <<>>

----------------------------------------------------------------------------
(* Properties of last_set_position *)

\* the PA commands of axis a in l
PAsOf(l, a) == SelectSeq(PAs(l), LAMBDA e : e.ax = a)

\* C19: on a MotionAxis, an operation that has sent no PA to the axis has left
\* last_set_position as it found it; once it has sent one, last_set_position
\* is the position the most recent PA was sent for (the command carries it
\* with six decimals), which is the target or target + backlash; after a
\* _set_position that moved it is the requested target.
C19_LastSetPosition ==
    (kind = "MotionAxis" /\ op.name # "none") =>
        /\ \A a \in Axes :
              LET pas == PAsOf(log, a)
              IN  IF pas = <<>>
                  THEN last_set_position[a] = op.lsp0[a]
                  ELSE /\ pas[Len(pas)].arg =
                              FmtSum(last_set_position[a] - last_set_backlash[a],
                                     last_set_backlash[a])
                       /\ last_set_position[a] - last_set_backlash[a] = op.pos
                       /\ last_set_backlash[a] \in {0, backlash[a]}
        /\ MovedCall => last_set_position[op.ax] = op.pos

\* target 5.0000004 mm reached through the extra move to 4.5000004 mm
C19_Witness ==
    /\ kind = "MotionAxis"
    /\ MovedCall
    /\ NPA(log) = 2
    /\ backlash[op.ax] # 0
    /\ last_set_position[op.ax] = op.pos
    /\ op.lsp0[op.ax] # op.pos

----------------------------------------------------------------------------
(* Properties of force *)

\* C22: a _set_position on a MotionAxis whose 'MO?' was answered with '1' and
\* that has returned: with force=True its last PA is PA(target), also when
\* the position read was within accuracy of the target; with force=False and
\* the position read within accuracy of the target it has sent 'MO?' and
\* 'TP?' and nothing else.
C22_Force ==
    (/\ kind = "MotionAxis"
     /\ op.name = "_set_position"
     /\ pc = "idle"
     /\ log # <<>>
     /\ log[1] = Ev(op.ax, "MO?", 0, 1)) =>
        /\ Len(log) >= 2
        /\ log[2].cmd = "TP?"
        /\ op.force =>
              /\ NPA(log) >= 1
              /\ PAs(log)[NPA(log)] = Ev(op.ax, "PA", Fmt(op.pos), 0)
        /\ (~op.force /\ Abs(log[2].reply - op.pos) <= Accuracy) =>
              log = <<Ev(op.ax, "MO?", 0, 1), log[2],
                      Ev(op.ax, "log_info: No need to set", op.pos, 0)>>

\* force=True at 5.000000 mm with target 5.0000004 mm: PA5.000000 is sent
C22_Witness ==
    /\ kind = "MotionAxis"
    /\ op.name = "_set_position"
    /\ pc = "idle"
    /\ op.force
    /\ Len(log) >= 2
    /\ log[1] = Ev(op.ax, "MO?", 0, 1)
    /\ log[2].cmd = "TP?"
    /\ Abs(log[2].reply - op.pos) <= Accuracy
    /\ NPA(log) = 1

----------------------------------------------------------------------------
(* Properties of the SMC100 enable state *)

\* C23: on an SMC100 axis is_on is true, with no exchange with the device,
\* in every state; on() and off() send nothing; and a _set_position never
\* logs 'Axis not enabled': past its is_on test it goes on to read the
\* position, whether the device is enabled or not.
C23_AlwaysOn ==
    kind = "MotionAxisSMC100" =>
        /\ \A a \in Axes : is_on_evs(a) = <<>> /\ Decode(is_on_reply(a))
        /\ ~Has(log, "MO?")
        /\ ~Has(log, "log_error: Axis not enabled")
        /\ op.name \in {"on", "off"} => log = <<>>
        /\ (op.name = "_set_position" /\ pc \notin {"is_on", "refresh"}) =>
              log # <<>> /\ log[1].cmd = "TP?"

\* off(), then a _set_position on a device in DISABLE state that sends its PA
C23_Witness ==
    /\ kind = "MotionAxisSMC100"
    /\ prev.name = "off"
    /\ op.name = "_set_position"
    /\ ~enabled[op.ax]
    /\ NPA(log) >= 1

====
